---- MODULE Spec2Model ----
(***************************************************************************)
(* proxypdf: the streaming PDF writer (StreamProxyWriter) and its object   *)
(* model.  Lengths are in tenths of a PDF point, so that the default       *)
(* margin of 0.1 inch (7.2 points) is the integer 72.  The output sink is  *)
(* the sequence of chunks written to it, each with its byte length; the    *)
(* position of a chunk in the file is the sum of the lengths before it.    *)
(***************************************************************************)
EXTENDS Integers, Sequences, FiniteSets, TLC

VARIABLES
    page_size,          \* self._page_size, <<width, height>>
    margin_size,        \* self._margin_size, after clamping
    card_margin_size,   \* self._card_margin_size
    close_stream,       \* self._close_stream
    stream,             \* self._stream: "none" (None), "open" or "closed"
    sink,               \* the bytes the stream has absorbed, as chunks
    object_counter,     \* self._object_counter
    objects,            \* self._objects: the registry, in registration order
    root,               \* self._root (handle into objects, 0 = None)
    pages_root,         \* self._pages_root (handle into objects, 0 = None)
    pages,              \* self._pages (handles into objects)
    proxy_positions,    \* self._proxy_positions
    cursor,             \* self._cursor
    lastCall            \* the last public call made on the writer, and how it ended

cfgVars == <<page_size, margin_size, card_margin_size, close_stream>>
docVars == <<stream, sink, object_counter, objects, root, pages_root, pages,
             proxy_positions, cursor>>
vars == <<cfgVars, docVars, lastCall>>

----------------------------------------------------------------------------
(* Bounds of the model *)

\* total number of cards placed in one document
MaxCards == 4
\* number of save() calls that run to completion
MaxSaves == 2
\* number of objects registered by calls that fail on a closed stream
MaxUnwritten == 1

(* Inputs *)

\* configurations <<page size in points, margin_size, card_margin_size>>, the
\* two margins in tenths of an inch: A4 with the default margin; a page two
\* cards wide and one high; one with no margin; pages whose rows wrap with a
\* card margin; a page smaller than a card
Configs == { <<595, 842, 1, 0>>, <<400, 300, 1, 0>>, <<400, 600, 0, 0>>,
             <<400, 520, 1, 1>>, <<200, 842, 1, 5>>, <<100, 100, 1, 0>> }
\* decoded images, by their size in pixels
Images == { [width |-> 6, height |-> 9], [width |-> 63, height |-> 88] }
\* the amount argument of add_proxy
Amounts == { -1, 0, 1, 3 }

----------------------------------------------------------------------------
(* Units and class constants *)

inch == 72 * 10
_PROXY_WIDTH == (25 * inch) \div 10
_PROXY_HEIGHT == (35 * inch) \div 10

----------------------------------------------------------------------------
(* Object model: byte lengths of what each write() emits *)

RECURSIVE Digits(_)
\* len(b(n)) for a non-negative integer n: len(str(n))
Digits(n) == IF n < 10 THEN 1 ELSE 1 + Digits(n \div 10)

RECURSIVE SumSeq(_)
SumSeq(s) == IF s = <<>> THEN 0 ELSE Head(s) + SumSeq(Tail(s))

\* len(IndirectObject.reference): b(number) + b" 0 R"
ReferenceLen(number) == Digits(number) + 4

\* bytes written by PdfList.write for items of the given lengths
PdfListLen(items) == 2 + SumSeq([i \in 1 .. Len(items) |-> items[i] + 1]) + 1

\* bytes written by PdfDict.write; entries are <<key length, value length>>
PdfDictLen(entries) ==
    3 + SumSeq([i \in 1 .. Len(entries) |-> 4 + entries[i][1] + 1 + entries[i][2] + 1]) + 3

\* len(zlib.compress(content)) for len(content) = raw.  The compressed length
\* depends on the data; this is the length of a single stored block (2 bytes
\* of header, 5 of block header, the data, 4 of checksum), which is what
\* deflate emits for data it cannot shrink.
CompressedLen(raw) == 2 + 5 + raw + 4

\* len(base64.a85encode(data)) for len(data) = n: five characters for every
\* four bytes, and one more than its bytes for a last partial group
A85Len(n) == 5 * (n \div 4) + (IF n % 4 = 0 THEN 0 ELSE (n % 4) + 1)

\* len(encoded) in PdfStream.write
EncodedLen(raw) == A85Len(CompressedLen(raw))

\* bytes written by PdfStream.write for a payload of `raw` bytes
PdfStreamLen(raw, entries) ==
    PdfDictLen(<< <<7, PdfListLen(<<14, 12>>)>>, <<7, Digits(EncodedLen(raw))>> >> \o entries)
    + 7 + EncodedLen(raw) + 11

\* len(b(v)) for a float v held in tenths: str() of a float has one decimal
\* at least ("7.2", "582.8", "-76.0"); binary rounding noise is left out
FloatLen(v) ==
    IF v < 0 THEN 1 + Digits((0 - v) \div 10) + 2 ELSE Digits(v \div 10) + 2

\* len() of the payload _flush_page builds: "1 0 0 1 0 0 cm " and, joined by
\* spaces, "q 180 0 0 252 <x> <y> cm /FormXob.<idx> Do Q" for each placement
PageContentLen(ops) ==
    15 + SumSeq([i \in 1 .. Len(ops) |->
                    14 + FloatLen(ops[i].x) + 1 + FloatLen(ops[i].y) + 13
                    + Digits(ops[i].name) + 5])
    + (IF Len(ops) > 1 THEN Len(ops) - 1 ELSE 0)

\* the /XObject dictionary of a page: /FormXob.<idx> -> reference
XObjectEntries(forms) ==
    [i \in 1 .. Len(forms) |-> <<9 + Digits(i), ReferenceLen(forms[i])>>]

\* bytes written by content.write(stream) for each kind of content
ContentLen(c) ==
    CASE c.type = "Catalog" ->
            PdfDictLen(<< <<5, 8>>, <<6, ReferenceLen(c.pages)>> >>)
      [] c.type = "Pages" ->
            PdfDictLen(<< <<5, 6>>, <<6, Digits(c.count)>>,
                          <<5, PdfListLen([i \in 1 .. Len(c.kids) |-> ReferenceLen(c.kids[i])])>> >>)
      [] c.type = "Mask" ->
            PdfStreamLen(c.raw,
                << <<17, 1>>, <<11, 11>>, <<7, PdfListLen(<<1, 1>>)>>,
                   <<7, Digits(c.height)>>, <<6, Digits(c.width)>>, <<8, 6>>, <<5, 8>> >>)
      [] c.type = "Color" ->
            PdfStreamLen(c.raw,
                << <<17, 1>>, <<11, 10>>, <<7, Digits(c.height)>>, <<6, Digits(c.width)>>,
                   <<8, 6>>, <<5, 8>>, <<6, ReferenceLen(c.smask)>> >>)
      [] c.type = "Contents" ->
            PdfStreamLen(c.raw, <<>>)
      [] c.type = "Page" ->
            PdfDictLen(<< <<9, PdfListLen(<<1, 1, Digits(c.mediabox[1]), Digits(c.mediabox[2])>>)>>,
                          <<5, 5>>,
                          <<7, ReferenceLen(c.parent)>>,
                          <<9, ReferenceLen(c.contents)>>,
                          <<10, PdfDictLen(<< <<8, PdfListLen(<<4, 5, 7, 7, 7>>)>>,
                                              <<8, PdfDictLen(XObjectEntries(c.xobject))>> >>)>> >>)
      [] OTHER -> PdfDictLen(<<>>)

\* what `del self._content` leaves behind
Deleted == [type |-> "Deleted"]

\* stream.tell(): the number of bytes written so far
Tell(s) == SumSeq([i \in 1 .. Len(s) |-> s[i].len])

----------------------------------------------------------------------------
----------------------------------------------------------------------------
(* The writer's mutable state as one record, so that a handler is a function *)
(* from state to state.  `raised` is set once an exception is propagating:   *)
(* every step leaves a state with `raised` set as it is.  `fail_after` is    *)
(* the number of objects the sink still accepts before a write to it raises  *)
(* an error, once; -1 when the sink does not fail during the call.           *)

Doc == [stream |-> stream, sink |-> sink, object_counter |-> object_counter,
        objects |-> objects, root |-> root, pages_root |-> pages_root,
        pages |-> pages, proxy_positions |-> proxy_positions, cursor |-> cursor,
        raised |-> FALSE, fail_after |-> -1]

Raise(d) == [d EXCEPT !.raised = TRUE]

\* bytes written by IndirectObject.write for the object o
ObjectLen(o) == Digits(o.number) + 7 + ContentLen(o.content) + 7

\* IndirectObject.write with the offset taken after the object is written
IndirectObjectWrite_offset_after(d, h) ==
    IF d.raised THEN d
    ELSE IF d.stream # "open" THEN Raise(d)
    ELSE IF d.fail_after = 0
    THEN Raise([d EXCEPT !.objects[h].bytes_offset = Tell(d.sink), !.fail_after = -1])
    ELSE [d EXCEPT !.objects[h].bytes_offset = Tell(d.sink) + ObjectLen(d.objects[h]),
                   !.objects[h].content = Deleted,
                   !.fail_after = IF @ > 0 THEN @ - 1 ELSE @,
                   !.sink = Append(@, [kind |-> "obj", len |-> ObjectLen(d.objects[h]),
                                       number |-> d.objects[h].number,
                                       content |-> d.objects[h].content])]

\* IndirectObject.write: tell() first, then the header, the content and
\* endobj; the content is deleted afterwards.  tell() on a missing or
\* closed stream raises before anything is changed; a sink that refuses the
\* first write of the object raises once the offset is taken, with nothing
\* written and the content still in place.
IndirectObjectWrite(d, h) ==
    IF d.raised THEN d
    ELSE IF d.stream # "open" THEN Raise(d)
    ELSE IF d.fail_after = 0
    THEN Raise([d EXCEPT !.objects[h].bytes_offset = Tell(d.sink), !.fail_after = -1])
    ELSE [d EXCEPT !.objects[h].bytes_offset = Tell(d.sink),
                   !.objects[h].content = Deleted,
                   !.fail_after = IF @ > 0 THEN @ - 1 ELSE @,
                   !.sink = Append(@, [kind |-> "obj", len |-> ObjectLen(d.objects[h]),
                                       number |-> d.objects[h].number,
                                       content |-> d.objects[h].content])]

\* _add_object up to the append: count, number, register
Register(d, content) ==
    [d EXCEPT !.object_counter = @ + 1,
              !.objects = Append(@, [number |-> d.object_counter + 1,
                                     bytes_offset |-> 0, content |-> content])]

\* pdf_object.write(self._stream) for the object just registered
WriteLast(d) == IndirectObjectWrite(d, Len(d.objects))

\* _add_object that writes the object whatever its `write` argument
_add_object_always_writes(d, content, write) ==
    IF d.raised THEN d ELSE WriteLast(Register(d, content))

\* StreamProxyWriter._add_object; the new object's handle is Len(objects)
_add_object(d, content, write) ==
    IF d.raised THEN d
    ELSE IF write THEN WriteLast(Register(d, content)) ELSE Register(d, content)

\* StreamProxyWriter._reset_cursor
_reset_cursor(d) ==
    [d EXCEPT !.cursor = <<margin_size, page_size[2] - margin_size>>]

\* content-stream operators that all draw under the name of the first
PageOps_one_name(pp) ==
    [i \in 1 .. Len(pp) |-> [name |-> 1, x |-> pp[i].x, y |-> pp[i].y,
                             w |-> 180 * 10, h |-> 252 * 10]]

\* the operators of one page's content stream, one per pending placement
PageOps(pp) ==
    [i \in 1 .. Len(pp) |-> [name |-> i, x |-> pp[i].x, y |-> pp[i].y,
                             w |-> 180 * 10, h |-> 252 * 10]]

\* _flush_page: reset the cursor, register and write the content stream
FlushContents(d) ==
    _add_object(_reset_cursor(d),
                [type |-> "Contents", raw |-> PageContentLen(PageOps(d.proxy_positions)),
                 ops |-> PageOps(d.proxy_positions)],
                TRUE)

\* _flush_page: register and write the Page; the content stream is the
\* object registered last
FlushPage(d) ==
    IF d.raised THEN d
    ELSE IF d.pages_root = 0 THEN Raise(d)
    ELSE _add_object(d,
             [type |-> "Page",
              mediabox |-> <<page_size[1] \div 10, page_size[2] \div 10>>,
              parent |-> d.objects[d.pages_root].number,
              contents |-> d.objects[Len(d.objects)].number,
              xobject |-> [i \in 1 .. Len(d.proxy_positions) |->
                              d.objects[d.proxy_positions[i].form].number]],
             TRUE)

\* _flush_page that leaves the flushed placements pending
FlushDone_keeps_placements(d) ==
    IF d.raised THEN d
    ELSE [d EXCEPT !.pages = Append(@, Len(d.objects))]

\* _flush_page: append the Page to the page list, clear the placements
FlushDone(d) ==
    IF d.raised THEN d
    ELSE [d EXCEPT !.pages = Append(@, Len(d.objects)), !.proxy_positions = <<>>]

\* StreamProxyWriter._flush_page
_flush_page(d) == FlushDone(FlushPage(FlushContents(d)))

\* _add_image_form: the mask object
AddMask(d, image) ==
    _add_object(d, [type |-> "Mask", raw |-> image.width * image.height,
                    height |-> image.height, width |-> image.width], TRUE)

\* _add_image_form: the color object; the mask is the object registered last
AddColor(d, image) ==
    IF d.raised THEN d
    ELSE _add_object(d, [type |-> "Color", raw |-> 3 * image.width * image.height,
                         height |-> image.height, width |-> image.width,
                         smask |-> d.objects[Len(d.objects)].number], TRUE)

\* StreamProxyWriter._add_image_form; the color object's handle is Len(objects)
_add_image_form(d, image) == AddColor(AddMask(d, image), image)

\* _add_proxy: record the placement at the cursor
RecordPlacement(d, form) ==
    [d EXCEPT !.proxy_positions =
        Append(@, [form |-> form, x |-> d.cursor[1], y |-> d.cursor[2] - _PROXY_HEIGHT])]

\* _add_proxy whose row wrap steps down by the card margin alone
_add_proxy_wrap_skips_height(d, form) ==
    IF d.raised THEN d
    ELSE IF d.cursor[1] + (_PROXY_WIDTH + card_margin_size) * 2 > page_size[1] - margin_size
    THEN IF d.cursor[2] - (_PROXY_HEIGHT - card_margin_size) * 2 < margin_size
         THEN _flush_page(RecordPlacement(d, form))
         ELSE [RecordPlacement(d, form) EXCEPT !.cursor =
                   <<margin_size, d.cursor[2] - card_margin_size>>]
    ELSE [RecordPlacement(d, form) EXCEPT !.cursor =
              <<d.cursor[1] + _PROXY_WIDTH + card_margin_size, d.cursor[2]>>]

\* _add_proxy that looks one slot ahead instead of two
_add_proxy_single_ahead(d, form) ==
    IF d.raised THEN d
    ELSE IF d.cursor[1] + (_PROXY_WIDTH + card_margin_size) > page_size[1] - margin_size
    THEN IF d.cursor[2] - (_PROXY_HEIGHT - card_margin_size) < margin_size
         THEN _flush_page(RecordPlacement(d, form))
         ELSE [RecordPlacement(d, form) EXCEPT !.cursor =
                   <<margin_size, d.cursor[2] - _PROXY_HEIGHT - card_margin_size>>]
    ELSE [RecordPlacement(d, form) EXCEPT !.cursor =
              <<d.cursor[1] + _PROXY_WIDTH + card_margin_size, d.cursor[2]>>]

\* StreamProxyWriter._add_proxy: record the placement, then flush the page,
\* wrap to the next row or advance within the row
_add_proxy(d, form) ==
    IF d.raised THEN d
    ELSE IF d.cursor[1] + (_PROXY_WIDTH + card_margin_size) * 2 > page_size[1] - margin_size
    THEN IF d.cursor[2] - (_PROXY_HEIGHT - card_margin_size) * 2 < margin_size
         THEN _flush_page(RecordPlacement(d, form))
         ELSE [RecordPlacement(d, form) EXCEPT !.cursor =
                   <<margin_size, d.cursor[2] - _PROXY_HEIGHT - card_margin_size>>]
    ELSE [RecordPlacement(d, form) EXCEPT !.cursor =
              <<d.cursor[1] + _PROXY_WIDTH + card_margin_size, d.cursor[2]>>]

RECURSIVE PlaceLoop(_, _, _)
\* `for _ in range(amount): self._add_proxy(form)`, with `left` iterations to go
PlaceLoop(d, form, left) ==
    IF left <= 0 \/ d.raised THEN d
    ELSE PlaceLoop(_add_proxy(d, form), form, left - 1)

\* add_proxy after _add_image_form: the form is the object registered last
PlaceAll(d, amount) ==
    IF d.raised THEN d ELSE PlaceLoop(d, Len(d.objects), amount)

\* add_proxy that builds the image's objects anew for every card
RECURSIVE add_proxy_form_per_card(_, _, _)
add_proxy_form_per_card(d, image, amount) ==
    IF amount <= 0 THEN d
    ELSE add_proxy_form_per_card(PlaceAll(_add_image_form(d, image), 1), image, amount - 1)

\* add_proxy that starts every call at the top-left slot of the page
add_proxy_resets_cursor(d, image, amount) ==
    IF amount <= 0 THEN d
    ELSE PlaceAll(_add_image_form(_reset_cursor(d), image), amount)

\* add_proxy that returns early for a negative amount only
add_proxy_accepts_zero(d, image, amount) ==
    IF amount < 0 THEN d
    ELSE PlaceAll(_add_image_form(d, image), amount)

\* StreamProxyWriter.add_proxy
add_proxy(d, image, amount) ==
    IF amount <= 0 THEN d
    ELSE PlaceAll(_add_image_form(d, image), amount)

\* open: take the stream and write the two header lines
OpenStream(d) ==
    [d EXCEPT !.stream = "open", !.sink = Append(@, [kind |-> "header", len |-> 21])]

\* open: self._pages_root = the object just registered
SetPagesRoot(d) ==
    IF d.raised THEN d ELSE [d EXCEPT !.pages_root = Len(d.objects)]

\* open: register and write the Catalog
AddCatalog(d) ==
    IF d.raised THEN d
    ELSE _add_object(d, [type |-> "Catalog", pages |-> d.objects[d.pages_root].number],
                     TRUE)

\* open: self._root = the object just registered
SetRoot(d) ==
    IF d.raised THEN d ELSE [d EXCEPT !.root = Len(d.objects)]

\* open() writing the Pages root at once, as it does the Catalog
open_writes_pages_root(d) ==
    SetRoot(AddCatalog(SetPagesRoot(_add_object(OpenStream(d), [type |-> "Empty"], TRUE))))

\* StreamProxyWriter.open
open(d) ==
    SetRoot(AddCatalog(SetPagesRoot(_add_object(OpenStream(d), [type |-> "Empty"], FALSE))))

\* the xref entry of one object: its offset right-justified to 10 digits
XrefEntryLen(offset) ==
    (IF Digits(offset) > 10 THEN Digits(offset) ELSE 10) + 10

\* _write_tail: "xref", "0 <count>", the free entry and one entry per object
XrefChunk(d) ==
    [kind |-> "xref",
     len |-> 5 + 2 + Digits(Len(d.objects) + 1) + 1 + 20
             + SumSeq([i \in 1 .. Len(d.objects) |-> XrefEntryLen(d.objects[i].bytes_offset)]),
     count |-> Len(d.objects) + 1,
     free |-> 1,
     entries |-> [i \in 1 .. Len(d.objects) |-> d.objects[i].bytes_offset]]

\* _write_tail: "trailer" and its dictionary
TrailerChunk(d) ==
    [kind |-> "trailer",
     len |-> 8 + PdfDictLen(<< <<5, Digits(Len(d.objects) + 1)>>,
                               <<5, ReferenceLen(d.objects[d.root].number)>> >>),
     size |-> Len(d.objects) + 1,
     root |-> d.objects[d.root].number]

\* _write_tail: "startxref", the offset of the xref section, "%%EOF"
StartxrefChunk(d) ==
    [kind |-> "startxref", len |-> 10 + Digits(Tell(d.sink)) + 7, offset |-> Tell(d.sink)]

\* StreamProxyWriter._write_tail
_write_tail(d) ==
    IF d.raised THEN d
    ELSE IF d.stream # "open" \/ d.root = 0 THEN Raise(d)
    ELSE [d EXCEPT !.sink = @ \o <<XrefChunk(d), TrailerChunk(d), StartxrefChunk(d)>>]

\* save: flush the page if a placement is pending
FlushPending(d) ==
    IF d.proxy_positions # <<>> THEN _flush_page(d) ELSE d

\* a Pages root whose /Kids are the content streams of the pages
SetPagesContent_kids_are_streams(d) ==
    IF d.raised THEN d
    ELSE IF d.pages_root = 0 THEN Raise(d)
    ELSE [d EXCEPT !.objects[d.pages_root].content =
             [type |-> "Pages", count |-> Len(d.pages),
              kids |-> [i \in 1 .. Len(d.pages) |-> d.objects[d.pages[i]].number - 1]]]

\* save: the final content of the Pages-root
SetPagesContent(d) ==
    IF d.raised THEN d
    ELSE IF d.pages_root = 0 THEN Raise(d)
    ELSE [d EXCEPT !.objects[d.pages_root].content =
             [type |-> "Pages", count |-> Len(d.pages),
              kids |-> [i \in 1 .. Len(d.pages) |-> d.objects[d.pages[i]].number]]]

\* save: self._pages_root.write(self._stream)
WritePagesRoot(d) ==
    IF d.raised THEN d ELSE IndirectObjectWrite(d, d.pages_root)

\* save: close the stream if the writer owns it
CloseStream(d) ==
    IF d.raised THEN d
    ELSE IF close_stream THEN [d EXCEPT !.stream = "closed"] ELSE d

\* a flush that is a no-op once an exception propagates
FlushPendingAfter(d) ==
    IF d.raised THEN d ELSE FlushPending(d)

\* save() that writes the Pages-root before it flushes the pending page
save_root_before_flush(d) ==
    CloseStream(_write_tail(FlushPendingAfter(WritePagesRoot(SetPagesContent(d)))))

\* save() that flushes a page whether or not a placement is pending
save_always_flushes(d) ==
    CloseStream(_write_tail(WritePagesRoot(SetPagesContent(_flush_page(d)))))

\* StreamProxyWriter.save
save(d) ==
    CloseStream(_write_tail(WritePagesRoot(SetPagesContent(FlushPending(d)))))

\* StreamProxyWriter.__exit__: close on an exception, save otherwise
__exit__(d, exc) ==
    IF exc
    THEN IF close_stream
         THEN IF d.stream = "none" THEN Raise(d) ELSE [d EXCEPT !.stream = "closed"]
         ELSE d
    ELSE save(d)

----------------------------------------------------------------------------
(* Construction *)

\* a constructor whose vertical test looks at the configured margin
ClampedMargin_tests_configured(size, margin_arg) ==
    LET m0 == (margin_arg * inch) \div 10
        m1 == IF m0 * 2 + _PROXY_WIDTH > size[1]
              THEN (size[1] - _PROXY_WIDTH) \div 2 ELSE m0
    IN IF m0 * 2 + _PROXY_HEIGHT > size[2]
       THEN (size[2] - _PROXY_HEIGHT) \div 2 ELSE m1

\* StreamProxyWriter.__init__: the margin in model units, clamped first on
\* the horizontal and then on the vertical axis
ClampedMargin(size, margin_arg) ==
    LET m0 == (margin_arg * inch) \div 10
        m1 == IF m0 * 2 + _PROXY_WIDTH > size[1]
              THEN (size[1] - _PROXY_WIDTH) \div 2 ELSE m0
    IN IF m1 * 2 + _PROXY_HEIGHT > size[2]
       THEN (size[2] - _PROXY_HEIGHT) \div 2 ELSE m1

Init ==
    /\ \E c \in Configs :
          /\ page_size = <<c[1] * 10, c[2] * 10>>
          /\ margin_size = ClampedMargin(<<c[1] * 10, c[2] * 10>>, c[3])
          /\ card_margin_size = (c[4] * inch) \div 10
          /\ cursor = <<ClampedMargin(<<c[1] * 10, c[2] * 10>>, c[3]),
                        c[2] * 10 - ClampedMargin(<<c[1] * 10, c[2] * 10>>, c[3])>>
    /\ close_stream \in BOOLEAN
    /\ stream = "none"
    /\ sink = <<>>
    /\ object_counter = 0
    /\ objects = <<>>
    /\ root = 0
    /\ pages_root = 0
    /\ pages = <<>>
    /\ proxy_positions = <<>>
    /\ lastCall = [op |-> "__init__", amount |-> 0, ok |-> TRUE]

\* page widths and heights in points, and margin_size arguments in tenths of
\* an inch, for the constructor alone: sides shorter than a card, equal to
\* a card's, just longer, and the sides of A4
PageSides == { 100, 180, 200, 252, 300, 595, 842 }
MarginArgs == { 0, 1, 5, 10, 30 }

\* __init__ up to the clamps: the margin holds the configured value
InitConstructing ==
    /\ \E w \in PageSides, h \in PageSides, arg \in MarginArgs :
          /\ page_size = <<w * 10, h * 10>>
          /\ margin_size = (arg * inch) \div 10
    /\ card_margin_size = 0
    /\ cursor = <<0, 0>>
    /\ close_stream = TRUE
    /\ stream = "none"
    /\ sink = <<>>
    /\ object_counter = 0
    /\ objects = <<>>
    /\ root = 0
    /\ pages_root = 0
    /\ pages = <<>>
    /\ proxy_positions = <<>>
    /\ lastCall = [op |-> "constructing", amount |-> 0, ok |-> TRUE]

\* __init__ from the clamps on: clamp the margin, set the cursor
Construct ==
    /\ lastCall.op = "constructing"
    /\ \E arg \in MarginArgs :
          /\ margin_size = (arg * inch) \div 10
          /\ margin_size' = ClampedMargin(page_size, arg)
          /\ cursor' = <<ClampedMargin(page_size, arg),
                         page_size[2] - ClampedMargin(page_size, arg)>>
    /\ lastCall' = [op |-> "__init__", amount |-> 0, ok |-> TRUE]
    /\ UNCHANGED <<page_size, card_margin_size, close_stream, stream, sink,
                   object_counter, objects, root, pages_root, pages, proxy_positions>>

\* the constructor on its own
SpecConstruct == InitConstructing /\ [][Construct]_vars

----------------------------------------------------------------------------
(* What the sink holds *)

\* the chunks of one kind, in the order written
ChunksOf(kind) == SelectSeq(sink, LAMBDA c : c.kind = kind)

\* how many times the object numbered n has been written
TimesWritten(n) ==
    Cardinality({i \in 1 .. Len(sink) : sink[i].kind = "obj" /\ sink[i].number = n})

\* the content-stream chunks, one per flushed page, in flush order
PageStreams ==
    SelectSeq(sink, LAMBDA c : c.kind = "obj" /\ c.content.type = "Contents")

\* cards placed so far: those of the flushed pages and the pending ones
CardsPlaced ==
    SumSeq([i \in 1 .. Len(PageStreams) |-> Len(PageStreams[i].content.ops)])
    + Len(proxy_positions)

\* objects a failed call registered and could not write
Unwritten ==
    Cardinality({i \in 1 .. Len(objects) :
                    objects[i].content.type \in {"Mask", "Color", "Contents", "Page"}})

\* the context-manager exit is the last call made on a writer
Exited == lastCall.op = "__exit__"

\* a save() now would get as far as registering or writing something
SaveBound ==
    /\ stream = "open" => Len(ChunksOf("xref")) < MaxSaves
    /\ (stream = "closed" /\ proxy_positions # <<>>) => Unwritten < MaxUnwritten

----------------------------------------------------------------------------
----------------------------------------------------------------------------
(* The calls a client makes on a writer.  The writer is opened once, before *)
(* any other call, and the context-manager exit is the last call; add_proxy *)
(* and save() may come in any order and any number of times in between.     *)

\* the writer's state after a call that left it as d
Commit(d, op, amount) ==
    /\ stream' = d.stream
    /\ sink' = d.sink
    /\ object_counter' = d.object_counter
    /\ objects' = d.objects
    /\ root' = d.root
    /\ pages_root' = d.pages_root
    /\ pages' = d.pages
    /\ proxy_positions' = d.proxy_positions
    /\ cursor' = d.cursor
    /\ lastCall' = [op |-> op, amount |-> amount, ok |-> ~d.raised]

Open ==
    /\ stream = "none"
    /\ ~Exited
    /\ Commit(open(Doc), "open", 0)
    /\ UNCHANGED cfgVars

AddProxy ==
    /\ stream # "none"
    /\ ~Exited
    /\ \E image \in Images, amount \in Amounts :
         /\ amount > 0 => CardsPlaced + amount <= MaxCards
         /\ (amount > 0 /\ stream = "closed") => Unwritten < MaxUnwritten
         /\ Commit(add_proxy(Doc, image, amount), "add_proxy", amount)
    /\ UNCHANGED cfgVars

Save ==
    /\ stream # "none"
    /\ ~Exited
    /\ SaveBound
    /\ Commit(save(Doc), "save", 0)
    /\ UNCHANGED cfgVars

Exit ==
    /\ stream # "none"
    /\ ~Exited
    /\ SaveBound
    /\ \E exc \in BOOLEAN : Commit(__exit__(Doc, exc), "__exit__", 0)
    /\ UNCHANGED cfgVars

Next == Open \/ AddProxy \/ Save \/ Exit

Spec == Init /\ [][Next]_vars

\* the number of objects of one add_proxy call the sink accepts before a
\* write to it raises: the mask, the color image, the content stream and the
\* Page of the first page the call flushes
FailPoints == 0 .. 3

\* add_proxy on an open document whose sink raises an error part-way
\* through the call; the error is transient, the sink accepts later writes
AddProxyFails ==
    /\ stream = "open"
    /\ ~Exited
    /\ Unwritten = 0
    /\ \E image \in Images, amount \in Amounts, n \in FailPoints :
         /\ amount > 0
         /\ CardsPlaced + amount <= MaxCards
         /\ add_proxy([Doc EXCEPT !.fail_after = n], image, amount).raised
         /\ Commit(add_proxy([Doc EXCEPT !.fail_after = n], image, amount),
                   "add_proxy", amount)
    /\ UNCHANGED cfgVars

NextFaulty == Next \/ AddProxyFails

\* the writer on a sink that can fail
SpecFaulty == Init /\ [][NextFaulty]_vars

\* add_proxy on a writer that was constructed, perhaps entered as a context
\* manager, and not opened
AddProxyUnopened ==
    /\ stream = "none"
    /\ ~Exited
    /\ Unwritten < MaxUnwritten
    /\ \E image \in Images, amount \in Amounts :
         Commit(add_proxy(Doc, image, amount), "add_proxy", amount)
    /\ UNCHANGED cfgVars

\* save() on a writer that was not opened
SaveUnopened ==
    /\ stream = "none"
    /\ ~Exited
    /\ Commit(save(Doc), "save", 0)
    /\ UNCHANGED cfgVars

NextAnyOrder == Next \/ AddProxyUnopened \/ SaveUnopened

\* the writer with calls made before open()
SpecAnyOrder == Init /\ [][NextAnyOrder]_vars

----------------------------------------------------------------------------
(* Properties *)

\* the position in the file of the first byte of the j-th chunk
ChunkStart(j) == Tell(SubSeq(sink, 1, j - 1))

\* the state in which the first save() of a document has just returned
JustSaved ==
    /\ lastCall.op = "save"
    /\ lastCall.ok
    /\ Len(ChunksOf("xref")) = 1

Xref == ChunksOf("xref")[1]
Trailer == ChunksOf("trailer")[1]

\* the placements of every page: of each flushed page, and the pending ones
PlacementLists ==
    [i \in 1 .. Len(PageStreams) |-> PageStreams[i].content.ops] \o <<proxy_positions>>

\* C1: after open(), add_proxy calls and one save(), with k registered
\* objects the xref section has one free entry and k in-use entries, the
\* trailer /Size is k + 1, and the i-th in-use entry is the position in the
\* file of the header of the object numbered i.
XrefMatchesHeaders ==
    JustSaved =>
        /\ Xref.free = 1
        /\ Len(Xref.entries) = Len(objects)
        /\ Xref.count = Len(objects) + 1
        /\ Trailer.size = Len(objects) + 1
        /\ \A i \in 1 .. Len(objects) :
              \E j \in 1 .. Len(sink) :
                 /\ sink[j].kind = "obj"
                 /\ sink[j].number = i
                 /\ Xref.entries[i] = ChunkStart(j)

XrefMatchesHeadersWitness ==
    /\ JustSaved
    /\ Len(pages) >= 2
    /\ Len(objects) >= 8

\* C2 as stated: after save() the offsets of the in-use xref entries are
\* strictly increasing in object-number order.
OffsetsIncreaseWithNumber ==
    JustSaved =>
        \A i, j \in 1 .. Len(Xref.entries) :
            i < j => Xref.entries[i] < Xref.entries[j]

\* C2 as amended: after save() the offsets of the entries of objects 2..k
\* are strictly increasing in object-number order, and the entry of object 1
\* (the Pages-root, which save() writes last) is greater than all of them.
OffsetsIncreaseExceptPagesRoot ==
    JustSaved =>
        /\ \A i, j \in 2 .. Len(Xref.entries) :
              i < j => Xref.entries[i] < Xref.entries[j]
        /\ \A i \in 2 .. Len(Xref.entries) : Xref.entries[i] < Xref.entries[1]
        /\ objects[pages_root].number = 1

OffsetsIncreaseWitness ==
    /\ JustSaved
    /\ Len(pages) >= 1
    /\ Len(Xref.entries) >= 6

\* whether the card placed at p lies within the margins of the page
InsideMargins(p) ==
    /\ margin_size <= p.x
    /\ p.x + _PROXY_WIDTH <= page_size[1] - margin_size
    /\ margin_size <= p.y
    /\ p.y + _PROXY_HEIGHT <= page_size[2] - margin_size

\* C3: every recorded placement has its whole card inside
\* [margin, page_width - margin] x [margin, page_height - margin].
PlacementsInsideMargins ==
    \A l \in 1 .. Len(PlacementLists) :
        \A i \in 1 .. Len(PlacementLists[l]) : InsideMargins(PlacementLists[l][i])

Distance(a, b) == IF a < b THEN b - a ELSE a - b

\* C4: with a non-negative card margin, any two placements of one page
\* differ by at least the card width in x or by at least the card height in y.
NoOverlapOnPage ==
    card_margin_size >= 0 =>
        \A l \in 1 .. Len(PlacementLists) :
            \A i, j \in 1 .. Len(PlacementLists[l]) :
                i # j =>
                    \/ Distance(PlacementLists[l][i].x, PlacementLists[l][j].x) >= _PROXY_WIDTH
                    \/ Distance(PlacementLists[l][i].y, PlacementLists[l][j].y) >= _PROXY_HEIGHT

NoOverlapWitness ==
    /\ Len(proxy_positions) >= 3
    /\ proxy_positions[1].y = proxy_positions[2].y
    /\ proxy_positions[1].y # proxy_positions[3].y

\* C5: when save() completes after open() and add_proxy calls, every
\* registered object has been written to the sink exactly once, and nothing
\* but registered objects has been written as an object.
WrittenExactlyOnce ==
    JustSaved =>
        /\ \A i \in 1 .. Len(objects) : TimesWritten(objects[i].number) = 1
        /\ \A j \in 1 .. Len(sink) :
              sink[j].kind = "obj" =>
                 \E i \in 1 .. Len(objects) : objects[i].number = sink[j].number

WrittenExactlyOnceWitness ==
    /\ JustSaved
    /\ Len(pages) >= 1
    /\ \E j \in 1 .. Len(sink) : sink[j].kind = "obj" /\ sink[j].content.type = "Color"

\* C6: whatever the sequence of calls, the Pages-root is written at most
\* once and at most one xref section and trailer is emitted.
FinalizedAtMostOnce ==
    /\ Len(ChunksOf("xref")) <= 1
    /\ Len(ChunksOf("trailer")) <= 1
    /\ pages_root # 0 => TimesWritten(objects[pages_root].number) <= 1

\* C7: a writer whose margin is negative after clamping never gets as far
\* as open(): its stream is never set and nothing is written to the sink.
NegativeMarginRejected ==
    margin_size < 0 => (stream = "none" /\ sink = <<>>)

\* the writer as __init__ leaves it
FreshDoc ==
    _reset_cursor([stream |-> "none", sink |-> <<>>, object_counter |-> 0,
                   objects |-> <<>>, root |-> 0, pages_root |-> 0, pages |-> <<>>,
                   proxy_positions |-> <<>>, cursor |-> <<0, 0>>, raised |-> FALSE,
                   fail_after |-> -1])

\* where the cards of a document are: page by page, then the pending ones,
\* and the cursor
Geometry(d) ==
    LET streams == SelectSeq(d.sink, LAMBDA c : c.kind = "obj" /\ c.content.type = "Contents")
    IN [flushed |-> [i \in 1 .. Len(streams) |->
                        [k \in 1 .. Len(streams[i].content.ops) |->
                            <<streams[i].content.ops[k].x, streams[i].content.ops[k].y>>]],
        pending |-> [k \in 1 .. Len(d.proxy_positions) |->
                        <<d.proxy_positions[k].x, d.proxy_positions[k].y>>],
        cursor |-> d.cursor]

RECURSIVE OneAtATime(_)
\* a fresh opened document after n calls add_proxy(image, 1)
OneAtATime(n) ==
    IF n = 0 THEN open(FreshDoc)
    ELSE add_proxy(OneAtATime(n - 1), CHOOSE image \in Images : TRUE, 1)

\* C8: on an opened document that has not been saved, however the cards
\* were split into add_proxy calls, the pages, the cards of each page, their
\* coordinates and the cursor are those of placing the same number of cards
\* one call at a time.
LayoutIndependentOfSplit ==
    (stream = "open" /\ ChunksOf("xref") = <<>>) =>
        Geometry(Doc) = Geometry(OneAtATime(CardsPlaced))

LayoutIndependentWitness ==
    /\ stream = "open"
    /\ ChunksOf("xref") = <<>>
    /\ lastCall.op = "add_proxy"
    /\ lastCall.amount = 3
    /\ Len(pages) >= 1
    /\ proxy_positions # <<>>

\* C9: a call add_proxy(image, amount) with amount <= 0 on an open document
\* changes nothing: not the object counter, the registry, the pending
\* placements, the cursor, the page list or the sink.
NonPositiveAmountIsNoOp ==
    [][(lastCall'.op = "add_proxy" /\ lastCall'.amount <= 0 /\ stream = "open")
          => UNCHANGED docVars]_vars

NonPositiveAmountWitness ==
    /\ lastCall.op = "add_proxy"
    /\ lastCall.amount <= 0
    /\ lastCall.ok
    /\ stream = "open"
    /\ proxy_positions # <<>>

\* no card was ever submitted: no image was registered, nothing is pending
NothingPlaced ==
    /\ CardsPlaced = 0
    /\ \A j \in 1 .. Len(sink) :
          sink[j].kind = "obj" => sink[j].content.type \notin {"Mask", "Color"}

\* C10: save() on an opened document to which no card was added writes a
\* complete file with zero pages: the header, the Catalog, the Pages-root
\* with /Count 0 and no /Kids, and an xref section and trailer for exactly
\* the two registered objects.
EmptyDocumentIsComplete ==
    (JustSaved /\ NothingPlaced) =>
        /\ Len(objects) = 2
        /\ pages = <<>>
        /\ [j \in 1 .. Len(sink) |-> sink[j].kind]
              = <<"header", "obj", "obj", "xref", "trailer", "startxref">>
        /\ sink[2].content = [type |-> "Catalog", pages |-> 1]
        /\ sink[3].number = 1
        /\ sink[3].content = [type |-> "Pages", count |-> 0, kids |-> <<>>]
        /\ Len(Xref.entries) = 2
        /\ Trailer.size = 3
        /\ Trailer.root = 2
        /\ sink[6].offset = ChunkStart(4)

EmptyDocumentWitness ==
    /\ JustSaved
    /\ NothingPlaced
    /\ Len(sink) = 6

\* cards that fit side by side, and rows that fit one above the other,
\* between the margins
Columns == (page_size[1] - 2 * margin_size) \div _PROXY_WIDTH
Rows == (page_size[2] - 2 * margin_size) \div _PROXY_HEIGHT

\* the i-th placement of a page sits in column (i - 1) mod Columns of row
\* (i - 1) div Columns, rows counted from the top margin
InSlot(p, i) ==
    /\ p.x = margin_size + ((i - 1) % Columns) * _PROXY_WIDTH
    /\ p.y = page_size[2] - margin_size - (((i - 1) \div Columns) + 1) * _PROXY_HEIGHT

\* the page whose content stream is the j-th chunk was flushed by save():
\* the Pages-root follows its Page object
FlushedBySave(j) ==
    /\ j + 2 <= Len(sink)
    /\ sink[j + 2].kind = "obj"
    /\ sink[j + 2].content.type = "Pages"

\* C11: with card margin 0 every page is packed exactly: its i-th card is in
\* column (i - 1) mod Columns of row (i - 1) div Columns, so a row holds
\* Columns cards and wraps on the same page while another row fits; fewer
\* than Columns * Rows cards are pending; and a page holds Columns * Rows
\* cards unless save() flushed it.
PackedExactly ==
    card_margin_size = 0 =>
        /\ \A l \in 1 .. Len(PlacementLists) :
              \A i \in 1 .. Len(PlacementLists[l]) : InSlot(PlacementLists[l][i], i)
        /\ Len(proxy_positions) < Columns * Rows
        /\ \A j \in 1 .. Len(sink) :
              (sink[j].kind = "obj" /\ sink[j].content.type = "Contents") =>
                 \/ Len(sink[j].content.ops) = Columns * Rows
                 \/ Len(sink[j].content.ops) < Columns * Rows /\ FlushedBySave(j)

\* the scenario of the A4 page: three cards in the first row, the fourth at
\* the start of the second row of the same page
PackedExactlyWitness ==
    /\ page_size = <<5950, 8420>>
    /\ margin_size = 72
    /\ card_margin_size = 0
    /\ pages = <<>>
    /\ Len(proxy_positions) = 4
    /\ proxy_positions[3].x = 72 + 2 * 1800
    /\ proxy_positions[3].y = proxy_positions[1].y
    /\ proxy_positions[4].x = 72
    /\ proxy_positions[4].y = proxy_positions[1].y - 2520

\* the chunks of the end of a document: a written Pages root, a
\* cross-reference section, a trailer
TailChunks(s) ==
    SelectSeq(s, LAMBDA c : \/ c.kind \in {"xref", "trailer"}
                            \/ (c.kind = "obj" /\ c.content.type = "Pages"))

\* C12: once an operation on an open document has failed part-way (an
\* object is registered and was never written), no later step writes the
\* Pages root, a cross-reference section or a trailer.
FailureIsTerminal ==
    [][Unwritten > 0 => TailChunks(sink') = TailChunks(sink)]_vars

\* the document is Open: opened, and no save() has completed
DocumentOpen == stream = "open" /\ ChunksOf("xref") = <<>>

\* the positions in the file of the chunks that satisfy Test
ChunksWhere(Test(_)) == {j \in 1 .. Len(sink) : Test(sink[j])}

IsPagesRoot(c) == c.kind = "obj" /\ c.content.type = "Pages"
IsPage(c) == c.kind = "obj" /\ c.content.type = "Page"
IsXref(c) == c.kind = "xref"

\* C13: open() registers the Pages root as object 1 without writing it and
\* registers and writes the Catalog as object 2; between operations on an
\* Open document every registered object but the Pages root has been
\* written and the Pages root has not; the first save() writes the Pages
\* root after every Page object and before the cross-reference section.
StreamingInvariant ==
    /\ stream # "none" =>
          /\ pages_root = 1 /\ objects[1].number = 1
          /\ root = 2 /\ objects[2].number = 2
          /\ sink[2].kind = "obj" /\ sink[2].number = 2
          /\ sink[2].content = [type |-> "Catalog", pages |-> 1]
    /\ DocumentOpen =>
          /\ TimesWritten(1) = 0
          /\ objects[1].content = [type |-> "Empty"]
          /\ \A i \in 2 .. Len(objects) :
                TimesWritten(i) = 1 /\ objects[i].content = Deleted
    /\ JustSaved =>
          /\ Cardinality(ChunksWhere(IsPagesRoot)) = 1
          /\ \A r \in ChunksWhere(IsPagesRoot) :
                /\ sink[r].number = 1
                /\ \A p \in ChunksWhere(IsPage) : p < r
                /\ \A x \in ChunksWhere(IsXref) : r < x

\* an Open document with a flushed page and a card pending
StreamingInvariantWitness ==
    /\ DocumentOpen
    /\ Len(pages) >= 1
    /\ proxy_positions # <<>>

\* the XObject references of a sequence of Page objects, in order
RECURSIVE FormsOfPages(_)
FormsOfPages(ps) ==
    IF ps = <<>> THEN <<>> ELSE Head(ps).content.xobject \o FormsOfPages(Tail(ps))

\* the object number each card placed so far refers to, in placement order:
\* the cards of the flushed pages, then the pending ones
FormsPlaced(s, oo, pp) ==
    FormsOfPages(SelectSeq(s, IsPage)) \o [i \in 1 .. Len(pp) |-> oo[pp[i].form].number]

\* the image objects in the file
ImageChunks(s) ==
    SelectSeq(s, LAMBDA c : c.kind = "obj" /\ c.content.type \in {"Mask", "Color"})

\* C14: an add_proxy call with amount > 0 registers and writes exactly two
\* image objects, the mask and then the color object whose /SMask is the
\* mask, whatever the amount; every placement of the call refers to that
\* color object, also the placements after a page flush inside the call.
OneImagePairPerCall ==
    [][(lastCall'.op = "add_proxy" /\ lastCall'.ok /\ lastCall'.amount > 0) =>
          /\ Len(ImageChunks(sink')) = Len(ImageChunks(sink)) + 2
          /\ LET n == Len(ImageChunks(sink))
                 mask == ImageChunks(sink')[n + 1]
                 color == ImageChunks(sink')[n + 2]
             IN /\ mask.content.type = "Mask"
                /\ mask.number = object_counter + 1
                /\ objects'[object_counter + 1].number = object_counter + 1
                /\ color.content.type = "Color"
                /\ color.number = object_counter + 2
                /\ objects'[object_counter + 2].number = object_counter + 2
                /\ color.content.smask = mask.number
          /\ FormsPlaced(sink', objects', proxy_positions')
                = FormsPlaced(sink, objects, proxy_positions)
                  \o [i \in 1 .. lastCall'.amount |-> object_counter + 2]]_vars

\* a call of three cards has flushed a page and left a card pending, both
\* with the color object of that call
OneImagePairWitness ==
    /\ lastCall = [op |-> "add_proxy", amount |-> 3, ok |-> TRUE]
    /\ proxy_positions # <<>>
    /\ ImageChunks(sink) # <<>>
    /\ LET color == ImageChunks(sink)[Len(ImageChunks(sink))].number
       IN /\ objects[proxy_positions[1].form].number = color
          /\ \E j \in ChunksWhere(IsPage) :
                \E i \in 1 .. Len(sink[j].content.xobject) :
                    sink[j].content.xobject[i] = color

\* C15: the pages partition the submitted cards into non-empty consecutive
\* chunks.  Step by step: a successful add_proxy of amount > 0 appends
\* amount cards to the sequence of cards on the flushed pages followed by
\* the pending ones, and no other step and no flush changes that sequence,
\* so no card is lost or duplicated; no Page has zero placements; a
\* successful save() leaves nothing pending.
PagesPartitionCards ==
    [][/\ LET before == FormsPlaced(sink, objects, proxy_positions)
              after == FormsPlaced(sink', objects', proxy_positions')
          IN IF lastCall'.op = "add_proxy" /\ lastCall'.ok /\ lastCall'.amount > 0
             THEN /\ Len(after) = Len(before) + lastCall'.amount
                  /\ SubSeq(after, 1, Len(before)) = before
             ELSE after = before
       /\ \A j \in 1 .. Len(sink') :
             IsPage(sink'[j]) =>
                /\ sink'[j].content.xobject # <<>>
                /\ j > 1 /\ sink'[j - 1].kind = "obj"
                /\ sink'[j - 1].content.type = "Contents"
                /\ Len(sink'[j - 1].content.ops) = Len(sink'[j].content.xobject)
       /\ (lastCall'.op = "save" /\ lastCall'.ok) => proxy_positions' = <<>>
       /\ Len(pages') = Len(SelectSeq(sink', IsPage))]_vars

\* the last card has filled the page exactly, and save() has added no page
PagesPartitionWitness ==
    /\ JustSaved
    /\ card_margin_size = 0
    /\ Len(pages) = 1
    /\ CardsPlaced = Columns * Rows
    /\ Len(PageStreams[1].content.ops) = Columns * Rows

\* the content streams of the pages in the file s
ContentsChunks(s) ==
    SelectSeq(s, LAMBDA c : c.kind = "obj" /\ c.content.type = "Contents")

\* the object numbers of the color images in the file s
ColorNumbers(s) ==
    {s[j].number : j \in {k \in 1 .. Len(s) : s[k].kind = "obj" /\ s[k].content.type = "Color"}}

\* C16: on every flushed page the i-th placement is drawn under a name
\* unique on the page, the /XObject dictionary has exactly one entry per
\* placement, which maps that name to the placement's color object,
\* /Contents is the content stream of the same flush and /Parent is the
\* Pages root; the page a step flushes first draws the placements that were
\* pending at their recorded positions with their recorded images, and the
\* card the call places next at the cursor.
FlushedPagesAreFaithful ==
    [][/\ \A j \in 1 .. Len(sink') :
             IsPage(sink'[j]) =>
                LET page == sink'[j].content
                    ops == sink'[j - 1].content.ops
                IN /\ sink'[j - 1].content.type = "Contents"
                   /\ page.contents = sink'[j - 1].number
                   /\ page.parent = objects'[pages_root'].number
                   /\ page.parent = 1
                   /\ Len(page.xobject) = Len(ops)
                   /\ \A i \in 1 .. Len(ops) :
                         /\ ops[i].name = i
                         /\ page.xobject[i] \in ColorNumbers(sink')
       /\ Len(ContentsChunks(sink')) > Len(ContentsChunks(sink)) =>
             LET n == Len(ContentsChunks(sink))
                 ops == ContentsChunks(sink')[n + 1].content.ops
                 xobject == SelectSeq(sink', IsPage)[n + 1].content.xobject
                 m == Len(proxy_positions)
             IN /\ Len(ops) >= m
                /\ \A i \in 1 .. m :
                      /\ ops[i].x = proxy_positions[i].x
                      /\ ops[i].y = proxy_positions[i].y
                      /\ xobject[i] = objects[proxy_positions[i].form].number
                /\ lastCall'.op = "save" => Len(ops) = m
                /\ lastCall'.op = "add_proxy" =>
                      /\ Len(ops) > m
                      /\ ops[m + 1].x = cursor[1]
                      /\ ops[m + 1].y = cursor[2] - _PROXY_HEIGHT
                      /\ \A i \in m + 1 .. Len(ops) : xobject[i] = object_counter + 2]_vars

\* a page flushed with cards of two images
FlushedPagesWitness ==
    \E j \in ChunksWhere(IsPage) :
        /\ Len(sink[j].content.xobject) >= 2
        /\ sink[j].content.xobject[1] # sink[j].content.xobject[2]

\* the object numbers the objects in the file and the trailer refer to
References ==
    UNION {
      LET c == sink[j]
      IN IF c.kind = "trailer" THEN {c.root}
         ELSE IF c.kind # "obj" THEN {}
         ELSE IF c.content.type = "Catalog" THEN {c.content.pages}
         ELSE IF c.content.type = "Color" THEN {c.content.smask}
         ELSE IF c.content.type = "Pages"
              THEN {c.content.kids[i] : i \in 1 .. Len(c.content.kids)}
         ELSE IF c.content.type = "Page"
              THEN {c.content.parent, c.content.contents}
                   \cup {c.content.xobject[i] : i \in 1 .. Len(c.content.xobject)}
         ELSE {}
      : j \in 1 .. Len(sink)}

\* C17: after save() every reference in the file (Catalog /Pages, trailer
\* /Root, Page /Parent, /Contents and /XObject entries, /SMask, /Kids) names
\* an object number in 1..k that is registered and was written; /Kids lists
\* exactly the Page objects, in flush order, and /Count is their number.
ReferencesResolve ==
    JustSaved =>
        /\ \A n \in References :
              /\ n \in 1 .. Len(objects)
              /\ objects[n].number = n
              /\ TimesWritten(n) = 1
        /\ \A r \in ChunksWhere(IsPagesRoot) :
              /\ sink[r].content.kids
                    = [i \in 1 .. Len(SelectSeq(sink, IsPage)) |->
                          SelectSeq(sink, IsPage)[i].number]
              /\ sink[r].content.count = Len(SelectSeq(sink, IsPage))
        /\ \E r \in ChunksWhere(IsPagesRoot) : sink[r].number = sink[2].content.pages
        /\ sink[2].number = Trailer.root
        /\ sink[2].content.type = "Catalog"

\* a saved document of two pages
ReferencesResolveWitness ==
    /\ JustSaved
    /\ Len(SelectSeq(sink, IsPage)) >= 2
    /\ ImageChunks(sink) # <<>>

Min(a, b) == IF a <= b THEN a ELSE b

\* C18: the effective margin is the least of the configured margin,
\* (page width - card width) / 2 and (page height - card height) / 2; it is
\* the configured margin when that fits on both axes; with it
\* 2 * margin + card width <= page width and 2 * margin + card height <=
\* page height, also when both clamps apply.
MarginIsMinimum ==
    [][lastCall.op = "constructing" =>
          /\ 2 * margin_size' = Min(2 * margin_size,
                                    Min(page_size[1] - _PROXY_WIDTH,
                                        page_size[2] - _PROXY_HEIGHT))
          /\ (/\ 2 * margin_size + _PROXY_WIDTH <= page_size[1]
              /\ 2 * margin_size + _PROXY_HEIGHT <= page_size[2])
                => margin_size' = margin_size
          /\ 2 * margin_size' + _PROXY_WIDTH <= page_size[1]
          /\ 2 * margin_size' + _PROXY_HEIGHT <= page_size[2]]_vars

\* both clamps have applied: the page is narrower and lower than a card,
\* the vertical bound is the tighter one
MarginIsMinimumWitness ==
    /\ lastCall.op = "__init__"
    /\ page_size = <<1000, 2000>>
    /\ margin_size = (1000 - _PROXY_WIDTH) \div 2
    /\ margin_size < (2000 - _PROXY_HEIGHT) \div 2

\* C19: add_proxy with amount > 0 and save() on a writer that has not been
\* opened raise an error and leave the object counter, the registry, the
\* pending placements, the cursor and the page list as they were.
OutOfOrderCallsChangeNothing ==
    [][(/\ stream = "none"
        /\ \/ lastCall'.op = "save"
           \/ lastCall'.op = "add_proxy" /\ lastCall'.amount > 0) =>
          /\ ~lastCall'.ok
          /\ UNCHANGED <<object_counter, objects, proxy_positions, cursor, pages>>]_vars

=============================================================================
